---- MODULE Spec2Model ----
(***************************************************************************)
(* Model of pipeline_yolo: the interactive annotation session              *)
(* (MultiClassImageAnnotator) with its annotation file, and the dataset    *)
(* assembly that follows it (process_annotations, copy_background_images,  *)
(* main).  An image's identity is the pair <<class folder, file number>>.  *)
(***************************************************************************)
EXTENDS Integers, Sequences, FiniteSets, TLC

\* ------------------------------------------------------------ configuration

\* CLASSES / INPUT_FOLDERS: the class ids.
CLASSES == {0, 1, 2}

\* The 10 of "abs(x2 - x1) < 10" in on_release.
MIN_BOX_SIZE == 10

\* max_display_size of load_image.
max_display_size == 900

\* TRAIN_SPLIT = 0.8, kept as the exact ratio 8/10.
TRAIN_SPLIT_NUM == 8
TRAIN_SPLIT_DEN == 10

\* The 10 of "len(image_paths) < 10" in process_annotations.
SMALL_SAMPLE == 10

\* ------------------------------------------------------------------ bounds

\* Boxes the session may hold in total under the images it shows.
MaxBoxes == 3

\* Largest store and background pool handed to the assembly.
MaxAnnotated == 20
MaxBackground == 2

\* ------------------------------------------------------- the input folders

\* None of Python, for a class id.
NoClass == -1

\* The folder "input_files/background", numbered after the class folders.
BackgroundFolder == 3

\* An image's identity (its path): <<class folder, file number>>.
\* get_images_by_class: the sorted listing of class folder c, when the
\* folders hold sizes[1], sizes[2], sizes[3] images.
Discovered(sizes, c) == [i \in 1..sizes[c + 1] |-> <<c, i>>]

RangeOf(s) == {s[i] : i \in 1..Len(s)}

FolderOf(img) == img[1]

\* pil_image.size of a decodable image: one image larger than the display
\* bound (shown at 900 x 600, scale 1.5), the others smaller (scale 1).
ImageSize(img) == IF img = <<0, 1>> THEN <<1350, 900>> ELSE <<100, 60>>

Abs(n) == IF n < 0 THEN -n ELSE n

\* round_aspect of Image.thumbnail for num/den (den > 0): the floor or the
\* ceiling, whichever has the smaller aspect error (the floor on a tie), at
\* least 1. errF and errC are the two errors, cross-multiplied.
RoundAspect(num, den, errF, errC) ==
  LET f == num \div den
      c == IF num % den = 0 THEN f ELSE f + 1
      pick == IF errF <= errC THEN f ELSE c
  IN IF pick < 1 THEN 1 ELSE pick

\* Image.thumbnail((900, 900)) on a w x h image: downscale only, aspect kept.
\* Portrait or square: x = round_aspect(y * aspect), error abs(aspect - n / y).
\* Landscape: y = round_aspect(x / aspect), error 0 for n = 0, otherwise
\* abs(aspect - x / n).
Thumbnail(w, h) ==
  LET m == max_display_size
      fx == (m * w) \div h
      cx == IF (m * w) % h = 0 THEN fx ELSE fx + 1
      fy == (m * h) \div w
      cy == IF (m * h) % w = 0 THEN fy ELSE fy + 1
  IN IF w <= m /\ h <= m THEN <<w, h>>
     ELSE IF h >= w
          THEN <<RoundAspect(m * w, h, Abs(w * m - fx * h), Abs(w * m - cx * h)), m>>
          ELSE <<m, RoundAspect(m * h, w,
                      IF fy = 0 THEN 0 ELSE Abs(w * fy - m * h) * cy,
                      Abs(w * cy - m * h) * fy)>>

\* int(x * scale) with scale = orig / disp: truncation toward zero.
ToSource(x, orig, disp) ==
  IF x >= 0 THEN (x * orig) \div disp ELSE -(((-x) * orig) \div disp)

\* ----------------------------------------------------------------- state

VARIABLES
  undecodable,              \* images Image.open fails on (the disk)
  file0,                    \* ANNOTATIONS_FILE as main found it
  missing,                  \* keys of the store whose image is gone from disk
  discovered,               \* main's images_by_class: the folders' listings
  file,                     \* ANNOTATIONS_FILE on disk
  images_by_class,          \* self.images_by_class: the working lists
  all_annotations,          \* self.all_annotations: the store
  current_class, current_index, current_image_path, current_bboxes,
  original_width, original_height, display_width, display_height,
  start_x, start_y,
  selected_class_for_bbox,
  messagebox,               \* the last dialog the latest handler showed
  root,                     \* "open", "destroyed", "killed", or no window
  pc,                       \* "idle", or the handler whose save is under way
  crashed,                  \* the process died
  prevStore,                \* the store before the mutation being saved
  \* dataset assembly (main after the session)
  step, bg_images, image_paths, train_paths, val_paths,
  train_bg, val_bg, train_count, val_count,
  outputs                   \* the paths of the files under PROJECT_NAME

cursorVars == <<current_class, current_index, current_image_path,
                current_bboxes, original_width, original_height,
                display_width, display_height>>
gestureVars == <<start_x, start_y>>
diskVars == <<undecodable, file0, missing, discovered, images_by_class>>
asmVars == <<step, bg_images, image_paths, train_paths, val_paths,
             train_bg, val_bg, train_count, val_count, outputs>>
sessionVars == <<file, all_annotations, cursorVars, gestureVars,
                 selected_class_for_bbox, messagebox, root, pc, crashed,
                 prevStore>>
vars == <<diskVars, sessionVars, asmVars>>

\* None of Python, for start_x / start_y and the unset image attributes.
None == -1000

\* ------------------------------------------------------------- the store

EmptyStore == [k \in {} |-> <<>>]

\* all_annotations[key] = boxes
Put(store, key, boxes) ==
  [k \in (DOMAIN store) \cup {key} |-> IF k = key THEN boxes ELSE store[k]]

\* del all_annotations[key]
Del(store, key) == [k \in (DOMAIN store) \ {key} |-> store[k]]

RECURSIVE SumLen(_, _)
SumLen(store, keys) ==
  IF keys = {} THEN 0
  ELSE LET k == CHOOSE x \in keys : TRUE
       IN Len(store[k]) + SumLen(store, keys \ {k})

\* The boxes held under the images of the working lists.
SessionBoxes(store) ==
  SumLen(store, (DOMAIN store)
                  \cap UNION {RangeOf(images_by_class[c]) : c \in CLASSES})

\* A box as an earlier session left it in the file.
StoredBox(img) ==
  [x1 |-> 0, y1 |-> 0, x2 |-> 10, y2 |-> 10,
   width |-> ImageSize(img)[1], height |-> ImageSize(img)[2],
   class |-> FolderOf(img)]

\* ---------------------------------------------------- the annotation file

\* json.dump of an int: a sign and the decimal digits.
RECURSIVE Digits(_)
Digits(n) == IF n < 10 THEN <<n>> ELSE Append(Digits(n \div 10), n % 10)

JsonNumber(n) == [minus |-> n < 0, digits |-> Digits(Abs(n))]

\* The digits read from the wrong end.
RECURSIVE DigitsValueReversed(_)
DigitsValueReversed(d) ==
  IF Len(d) = 1 THEN d[1]
  ELSE 10 * DigitsValueReversed(SubSeq(d, 2, Len(d))) + d[1]

\* json.load of a number without fraction or exponent: an int.
RECURSIVE DigitsValue(_)
DigitsValue(d) ==
  IF Len(d) = 1 THEN d[1]
  ELSE 10 * DigitsValue(SubSeq(d, 1, Len(d) - 1)) + d[Len(d)]

ParseNumber(t) ==
  IF t.minus THEN -DigitsValue(t.digits) ELSE DigitsValue(t.digits)

\* json.dump of a str (a key of the store), and json.load of it.
JsonString(k) == [quoted |-> k]
ParseString(t) == t.quoted

\* The keys of a box dict, in the order on_release inserts them.
BoxFields == <<"x1", "y1", "x2", "y2", "width", "height", "class">>

\* json.dump of a box: a JSON object, its members in insertion order.
JsonObjectOfBox(b) ==
  [i \in 1..Len(BoxFields) |-> <<BoxFields[i], JsonNumber(b[BoxFields[i]])>>]

\* json.load of a JSON object of numbers: a dict, the last member of a name
\* giving its value.
ParseBox(members) ==
  [name \in {members[i][1] : i \in 1..Len(members)} |->
     LET last == CHOOSE i \in 1..Len(members) :
                   /\ members[i][1] = name
                   /\ \A j \in 1..Len(members) : members[j][1] = name => j <= i
     IN ParseNumber(members[last][2])]

\* json.dump(self.all_annotations): a JSON object with one member for each
\* key, its value the array of the key's boxes in list order.
JsonDump(store) ==
  {<<JsonString(k),
     [i \in 1..Len(store[k]) |-> JsonObjectOfBox(store[k][i])]>> :
     k \in DOMAIN store}

\* json.load of such an object.
JsonLoad(text) ==
  [k \in {ParseString(m[1]) : m \in text} |->
     LET m == CHOOSE x \in text : ParseString(x[1]) = k
     IN [i \in 1..Len(m[2]) |-> ParseBox(m[2][i])]]

FileAbsent == [kind |-> "absent", data |-> {}]
\* the file holds the whole of json.dump(store)
FileOf(store) == [kind |-> "complete", data |-> JsonDump(store)]
\* open(ANNOTATIONS_FILE, 'w') has truncated the file
FileTruncated == [kind |-> "empty", data |-> {}]
\* a proper prefix of json.dump(store) has reached the disk
FilePartial(store) == [kind |-> "partial", data |-> JsonDump(store)]

\* load_existing_annotations swallowing the parse error and returning {}.
LoadExistingLenient(f) ==
  [ok |-> TRUE,
   data |-> IF f.kind = "complete" THEN JsonLoad(f.data) ELSE EmptyStore]

\* load_existing_annotations: {} when there is no file, json.load of the
\* file otherwise; ok is FALSE when json.load raises, as it does on an empty
\* file and on a prefix of a JSON object.
LoadExisting(f) ==
  IF f.kind = "absent" THEN [ok |-> TRUE, data |-> EmptyStore]
  ELSE IF f.kind = "complete" THEN [ok |-> TRUE, data |-> JsonLoad(f.data)]
  ELSE [ok |-> FALSE, data |-> EmptyStore]

\* ------------------------------------------------------------- navigation

\* The scan with "!=" for ">": the first class other than c.
NextClassOther(c) ==
  LET other == {k \in CLASSES : k # c /\ images_by_class[k] # <<>>}
  IN IF other = {} THEN NoClass
     ELSE CHOOSE k \in other : \A j \in other : k <= j

\* The first class after c, in ascending order, with a non-empty working
\* list: the scan of load_image and next_image.
NextClassAfter(c) ==
  LET later == {k \in CLASSES : k > c /\ images_by_class[k] # <<>>}
  IN IF later = {} THEN NoClass
     ELSE CHOOSE k \in later : \A j \in later : k <= j

\* The cursor and what load_image derives from the image at it.
Cursor ==
  [class |-> current_class, index |-> current_index,
   path |-> current_image_path, bboxes |-> current_bboxes,
   ow |-> original_width, oh |-> original_height,
   dw |-> display_width, dh |-> display_height, exit |-> FALSE,
   msg |-> "none"]

RECURSIVE LoadImage(_, _), NextImageFrom(_, _), SwitchClassFrom(_, _, _)

\* load_image, on store `store`, from cursor v.  exit: save_and_exit was
\* called; msg: the title of the last messagebox shown.
LoadImage(v, store) ==
  LET images == IF v.class = NoClass THEN <<>> ELSE images_by_class[v.class]
  IN IF images = <<>> \/ v.index >= Len(images)
     THEN LET next_class == NextClassAfter(v.class)
          IN IF next_class = NoClass
             THEN [v EXCEPT !.exit = TRUE, !.msg = "Completado"]
             ELSE LoadImage([v EXCEPT !.class = next_class, !.index = 0],
                            store)
     ELSE LET img == images[v.index + 1]
              v1 == [v EXCEPT !.path = img]
              disp == Thumbnail(ImageSize(img)[1], ImageSize(img)[2])
          IN IF img \in undecodable
             THEN NextImageFrom([v1 EXCEPT !.msg = "Error"], store)
             ELSE [v1 EXCEPT !.ow = ImageSize(img)[1],
                             !.oh = ImageSize(img)[2],
                             !.dw = disp[1], !.dh = disp[2],
                             !.bboxes = IF img \in DOMAIN store
                                        THEN store[img] ELSE <<>>]

\* next_image
NextImageFrom(v, store) ==
  LET images == images_by_class[v.class]
  IN IF v.index < Len(images) - 1
     THEN LoadImage([v EXCEPT !.index = v.index + 1], store)
     ELSE LET next_class == NextClassAfter(v.class)
          IN IF next_class # NoClass /\ next_class # 0
             THEN SwitchClassFrom([v EXCEPT !.msg = "Pasando"], next_class,
                                  store)
             ELSE [v EXCEPT !.msg = "Fin"]

\* switch_class without its test of the working list.
SwitchClassUnguarded(v, class_id, store) ==
  LoadImage([v EXCEPT !.class = class_id, !.index = 0], store)

\* switch_class
SwitchClassFrom(v, class_id, store) ==
  IF images_by_class[class_id] = <<>>
  THEN [v EXCEPT !.msg = "Clase completa"]
  ELSE LoadImage([v EXCEPT !.class = class_id, !.index = 0], store)

\* prev_image going round to the end of the class from index 0.
PrevImageWraps(v, store) ==
  LoadImage([v EXCEPT !.index = IF v.index > 0 THEN v.index - 1
                                ELSE Len(images_by_class[v.class]) - 1],
            store)

\* prev_image
PrevImageFrom(v, store) ==
  IF v.index > 0
  THEN LoadImage([v EXCEPT !.index = v.index - 1], store)
  ELSE [v EXCEPT !.msg = "Inicio"]

SetCursorInit(v) ==
  /\ current_class = v.class
  /\ current_index = v.index
  /\ current_image_path = v.path
  /\ current_bboxes = v.bboxes
  /\ original_width = v.ow
  /\ original_height = v.oh
  /\ display_width = v.dw
  /\ display_height = v.dh
  /\ messagebox = v.msg

\* The cursor variables take the values of v.
SetCursor(v) ==
  /\ current_class' = v.class
  /\ current_index' = v.index
  /\ current_image_path' = v.path
  /\ current_bboxes' = v.bboxes
  /\ original_width' = v.ow
  /\ original_height' = v.oh
  /\ display_width' = v.dw
  /\ display_height' = v.dh
  /\ messagebox' = v.msg

\* ------------------------------------------------------------------- Init

\* What main finds on disk: the number of images in each class folder, the
\* keys an earlier session left in the file, and the images that fail to
\* decode (one at most, among those the session opens).  A first run; the
\* middle class done; the first class done; all but one image done; all
\* done.
InputCases ==
  {[sizes |-> <<1, 1, 1>>, keys |-> {}, bad |-> {{}, {<<1, 1>>}}],
   [sizes |-> <<2, 1, 1>>, keys |-> {<<1, 1>>}, bad |-> {{}, {<<0, 1>>}}],
   [sizes |-> <<2, 1, 1>>, keys |-> {<<0, 1>>, <<0, 2>>},
    bad |-> {{}, {<<1, 1>>}, {<<2, 1>>}}],
   [sizes |-> <<2, 1, 1>>, keys |-> {<<0, 2>>, <<1, 1>>, <<2, 1>>},
    bad |-> {{}, {<<0, 1>>}}],
   [sizes |-> <<2, 1, 1>>,
    keys |-> {<<0, 1>>, <<0, 2>>, <<1, 1>>, <<2, 1>>}, bad |-> {{}}]}

\* __init__'s filter: the images of a class that are no key of the store.
Unannotated(sizes, c, store) ==
  SelectSeq(Discovered(sizes, c), LAMBDA img : img \notin DOMAIN store)

\* The scan in descending order.
LastClass(ibc) ==
  LET todo == {c \in CLASSES : ibc[c] # <<>>}
  IN IF todo = {} THEN NoClass ELSE CHOOSE c \in todo : \A k \in todo : c >= k

\* The first class, ascending, with a non-empty working list.
FirstClass(ibc) ==
  LET todo == {c \in CLASSES : ibc[c] # <<>>}
  IN IF todo = {} THEN NoClass ELSE CHOOSE c \in todo : \A k \in todo : c <= k

\* The statistics of __init__ when no image is left to annotate: ann['class']
\* indexes a list of boxes with a str, which raises TypeError for the first
\* value of the store.
StatisticsRaise(store) == DOMAIN store # {}

\* The session's variables before __init__ has loaded an image.
Unloaded(c) ==
  [class |-> c, index |-> 0, path |-> <<>>, bboxes |-> <<>>,
   ow |-> None, oh |-> None, dw |-> None, dh |-> None, exit |-> FALSE,
   msg |-> "none"]

\* No file under the project directory.
NoFiles == {}

AsmIdle ==
  /\ step = "session"
  /\ outputs = NoFiles
  /\ bg_images = <<>>
  /\ image_paths = <<>>
  /\ train_paths = <<>>
  /\ val_paths = <<>>
  /\ train_bg = <<>>
  /\ val_bg = <<>>
  /\ train_count = 0
  /\ val_count = 0

\* main up to the end of MultiClassImageAnnotator.__init__.  The file is
\* absent (a first run), whole, or cut short by a save that did not finish.
\* root is "load_error" when load_existing_annotations raises (no annotator
\* is built), "ctor_error" when __init__ raises.
Init ==
  /\ \E in \in InputCases :
       LET earlier == [k \in in.keys |-> <<StoredBox(k)>>]
           loaded == LoadExisting(file0)
       IN /\ file0 \in {IF in.keys = {} THEN FileAbsent ELSE FileOf(earlier),
                         FileTruncated, FilePartial(earlier)}
          /\ all_annotations = loaded.data
          /\ discovered = [c \in CLASSES |-> Discovered(in.sizes, c)]
          /\ images_by_class =
               [c \in CLASSES |->
                  IF loaded.ok THEN Unannotated(in.sizes, c, loaded.data)
                  ELSE <<>>]
          \* only the images the session opens show a decode failure
          /\ undecodable \in
               {u \in in.bad :
                  u \subseteq UNION {RangeOf(images_by_class[c]) :
                                       c \in CLASSES}}
          /\ LET first == FirstClass(images_by_class)
                 v == IF first = NoClass THEN Unloaded(NoClass)
                      ELSE LoadImage(Unloaded(first), all_annotations)
             IN /\ SetCursorInit(v)
                /\ root = IF ~loaded.ok THEN "load_error"
                          ELSE IF first # NoClass THEN "open"
                          ELSE IF StatisticsRaise(all_annotations)
                          THEN "ctor_error"
                          ELSE "none"
                /\ selected_class_for_bbox = first
  /\ file = file0
  /\ missing = {}
  /\ start_x = None
  /\ start_y = None
  /\ pc = "idle"
  /\ crashed = FALSE
  /\ prevStore = all_annotations
  /\ AsmIdle

\* ------------------------------------------------------- the mouse input

\* Where the input surface delivers a press, and a release.
PressPoints == {<<0, 0>>}
ReleasePoints == {<<10, 10>>, <<9, 30>>, <<30, 9>>}

Min(a, b) == IF a <= b THEN a ELSE b
Max(a, b) == IF a >= b THEN a ELSE b

\* The test with "and" for "or".
TooSmallInBoth(x1, y1, x2, y2) ==
  Abs(x2 - x1) < MIN_BOX_SIZE /\ Abs(y2 - y1) < MIN_BOX_SIZE

\* on_release without the size test.
TooSmallNever(x1, y1, x2, y2) == FALSE

\* on_release's test of the normalized display rectangle.
TooSmall(x1, y1, x2, y2) ==
  Abs(x2 - x1) < MIN_BOX_SIZE \/ Abs(y2 - y1) < MIN_BOX_SIZE

\* new_bbox recording the display size for every box after the first.
NewBboxDisplaySizeAfterFirst(x1, y1, x2, y2) ==
  [x1 |-> ToSource(x1, original_width, display_width),
   y1 |-> ToSource(y1, original_height, display_height),
   x2 |-> ToSource(x2, original_width, display_width),
   y2 |-> ToSource(y2, original_height, display_height),
   width |-> IF current_bboxes = <<>> THEN original_width ELSE display_width,
   height |-> IF current_bboxes = <<>> THEN original_height
              ELSE display_height,
   class |-> selected_class_for_bbox]

\* new_bbox taking the class of the folder on show.
NewBboxOfFolder(x1, y1, x2, y2) ==
  [x1 |-> ToSource(x1, original_width, display_width),
   y1 |-> ToSource(y1, original_height, display_height),
   x2 |-> ToSource(x2, original_width, display_width),
   y2 |-> ToSource(y2, original_height, display_height),
   width |-> original_width, height |-> original_height,
   class |-> current_class]

\* new_bbox of on_release.
NewBbox(x1, y1, x2, y2) ==
  [x1 |-> ToSource(x1, original_width, display_width),
   y1 |-> ToSource(y1, original_height, display_height),
   x2 |-> ToSource(x2, original_width, display_width),
   y2 |-> ToSource(y2, original_height, display_height),
   width |-> original_width, height |-> original_height,
   class |-> selected_class_for_bbox]

\* --------------------------------------------------------------- handlers

\* The main loop is waiting for the next event.
Ready == root = "open" /\ pc = "idle" /\ ~crashed /\ step = "session"

\* A handler that returns without calling save_annotations.
SaveSkipped(handler) == UNCHANGED <<file, pc>>

\* save_annotations, up to open(ANNOTATIONS_FILE, 'w'): the file is
\* truncated, json.dump has yet to run.
BeginSave(handler) ==
  /\ file' = FileTruncated
  /\ pc' = handler

\* The handler returns having changed nothing but the dialog it showed.
Shows(title) ==
  /\ messagebox' = title
  /\ UNCHANGED <<diskVars, asmVars, file, all_annotations, cursorVars,
                 gestureVars, selected_class_for_bbox, root, pc, crashed,
                 prevStore>>

\* delete_last_bbox writing the list back whether or not it is empty.
StoreAfterDeleteKeepsKey(store, path, boxes) == Put(store, path, boxes)

\* The store after delete_last_bbox has popped, leaving `boxes`.
StoreAfterDelete(store, path, boxes) ==
  IF boxes # <<>> THEN Put(store, path, boxes)
  ELSE IF path \in DOMAIN store THEN Del(store, path) ELSE store

\* A navigation call has left the cursor at v; load_image may have called
\* save_and_exit.
AfterLoad(v) ==
  /\ SetCursor(v)
  /\ IF v.exit THEN BeginSave("save_and_exit") ELSE UNCHANGED <<file, pc>>

set_bbox_class(class_id) ==
  /\ Ready
  /\ selected_class_for_bbox' = class_id
  /\ messagebox' = "none"
  /\ UNCHANGED <<diskVars, asmVars, file, all_annotations, cursorVars,
                 gestureVars, root, pc, crashed, prevStore>>

on_press(p) ==
  /\ Ready
  /\ start_x' = p[1]
  /\ start_y' = p[2]
  /\ messagebox' = "none"
  /\ UNCHANGED <<diskVars, asmVars, file, all_annotations, cursorVars,
                 selected_class_for_bbox, root, pc, crashed, prevStore>>

on_release(p) ==
  /\ Ready
  /\ LET x1 == Min(start_x, p[1])
         x2 == Max(start_x, p[1])
         y1 == Min(start_y, p[2])
         y2 == Max(start_y, p[2])
     IN IF start_x = None
        THEN Shows("none")
        ELSE IF TooSmall(x1, y1, x2, y2)
        THEN Shows("Rectangulo muy pequeno")
        ELSE IF original_width = None
        \* self.scale_x is not set: the callback raises, Tk reports it
        THEN Shows("none")
        ELSE LET boxes == Append(current_bboxes, NewBbox(x1, y1, x2, y2))
                 store == Put(all_annotations, current_image_path, boxes)
             IN /\ SessionBoxes(store) <= MaxBoxes
                /\ current_bboxes' = boxes
                /\ all_annotations' = store
                /\ prevStore' = all_annotations
                /\ BeginSave("on_release")
                /\ messagebox' = "none"
                /\ UNCHANGED <<diskVars, asmVars, current_class,
                               current_index, current_image_path,
                               original_width, original_height,
                               display_width, display_height, gestureVars,
                               selected_class_for_bbox, root, crashed>>

delete_last_bbox ==
  /\ Ready
  /\ IF current_bboxes = <<>>
     THEN Shows("Sin bboxes")
     ELSE LET boxes == SubSeq(current_bboxes, 1, Len(current_bboxes) - 1)
          IN /\ current_bboxes' = boxes
             /\ all_annotations' =
                  StoreAfterDelete(all_annotations, current_image_path, boxes)
             /\ prevStore' = all_annotations
             /\ BeginSave("delete_last_bbox")
             /\ messagebox' = "none"
             /\ UNCHANGED <<diskVars, asmVars, current_class, current_index,
                            current_image_path, original_width,
                            original_height, display_width, display_height,
                            gestureVars, selected_class_for_bbox, root,
                            crashed>>

\* confirm: the operator's answer to askyesno.
clear_all_annotations(confirm) ==
  /\ Ready
  /\ IF current_bboxes = <<>>
     THEN Shows("Sin anotaciones")
     ELSE IF ~confirm
     THEN Shows("Confirmar")
     ELSE /\ current_bboxes' = <<>>
          /\ all_annotations' =
               IF current_image_path \in DOMAIN all_annotations
               THEN Del(all_annotations, current_image_path)
               ELSE all_annotations
          /\ prevStore' = all_annotations
          /\ BeginSave("clear_all_annotations")
          /\ messagebox' = "Confirmar"
          /\ UNCHANGED <<diskVars, asmVars, current_class, current_index,
                         current_image_path, original_width,
                         original_height, display_width, display_height,
                         gestureVars, selected_class_for_bbox, root,
                         crashed>>

next_image ==
  /\ Ready
  /\ AfterLoad(NextImageFrom(Cursor, all_annotations))
  /\ UNCHANGED <<diskVars, asmVars, all_annotations, gestureVars,
                 selected_class_for_bbox, root, crashed, prevStore>>

prev_image ==
  /\ Ready
  /\ AfterLoad(PrevImageFrom(Cursor, all_annotations))
  /\ UNCHANGED <<diskVars, asmVars, all_annotations, gestureVars,
                 selected_class_for_bbox, root, crashed, prevStore>>

switch_class(class_id) ==
  /\ Ready
  /\ AfterLoad(SwitchClassFrom(Cursor, class_id, all_annotations))
  /\ UNCHANGED <<diskVars, asmVars, all_annotations, gestureVars,
                 selected_class_for_bbox, root, crashed, prevStore>>

save_and_exit ==
  /\ Ready
  /\ BeginSave("save_and_exit")
  /\ messagebox' = "none"
  /\ UNCHANGED <<diskVars, asmVars, all_annotations, cursorVars,
                 gestureVars, selected_class_for_bbox, root, crashed,
                 prevStore>>

\* json.dump under way: the buffer is flushed with part of the text.
SaveWrite ==
  /\ root = "open" /\ ~crashed
  /\ pc # "idle"
  /\ file = FileTruncated
  /\ file' = FilePartial(all_annotations)
  /\ UNCHANGED <<diskVars, asmVars, all_annotations, cursorVars,
                 gestureVars, selected_class_for_bbox, messagebox, root, pc,
                 crashed, prevStore>>

\* The with block closes the file, whole, and the handler runs to its end:
\* clear_all_annotations goes on to load_image, save_and_exit to
\* root.destroy().
SaveFinish ==
  /\ root = "open" /\ ~crashed
  /\ pc # "idle"
  /\ prevStore' = all_annotations
  /\ IF pc = "clear_all_annotations"
     THEN LET v == LoadImage(Cursor, all_annotations)
          IN /\ SetCursor(v)
             /\ IF v.exit
                THEN BeginSave("save_and_exit")
                ELSE file' = FileOf(all_annotations) /\ pc' = "idle"
             /\ root' = root
     ELSE /\ file' = FileOf(all_annotations)
          /\ pc' = "idle"
          /\ root' = IF pc = "save_and_exit" THEN "destroyed" ELSE root
          /\ UNCHANGED <<cursorVars, messagebox>>
  /\ UNCHANGED <<diskVars, asmVars, all_annotations, gestureVars,
                 selected_class_for_bbox, crashed>>

\* The process dies: power loss, kill, an uncaught error outside a callback.
\* What it held in memory is gone and the file stays as it is; the store and
\* the store before the mutation in flight are kept as a record of what the
\* process held when it died.
Crash ==
  /\ root = "open" /\ ~crashed /\ step = "session"
  /\ crashed' = TRUE
  /\ root' = "killed"
  /\ pc' = "idle"
  /\ SetCursor(Unloaded(NoClass))
  /\ start_x' = None
  /\ start_y' = None
  /\ UNCHANGED <<diskVars, asmVars, file, all_annotations, prevStore,
                 selected_class_for_bbox>>

\* annotator.run() returns to main when the window has been destroyed, or
\* at once when self.root is None.
run_returns ==
  /\ root \in {"destroyed", "none"} /\ ~crashed
  /\ step = "session"
  /\ step' = "annotated"
  /\ UNCHANGED <<diskVars, sessionVars, bg_images, image_paths, train_paths,
                 val_paths, train_bg, val_bg, train_count, val_count,
                 outputs>>

SessionNext ==
  \/ \E class_id \in CLASSES : set_bbox_class(class_id)
  \/ \E p \in PressPoints : on_press(p)
  \/ \E p \in ReleasePoints : on_release(p)
  \/ delete_last_bbox
  \/ \E confirm \in BOOLEAN : clear_all_annotations(confirm)
  \/ next_image
  \/ prev_image
  \/ \E class_id \in CLASSES : switch_class(class_id)
  \/ save_and_exit
  \/ SaveWrite
  \/ SaveFinish
  \/ Crash
  \/ run_returns

\* The annotation session: main up to annotator.run().
Spec == Init /\ [][SessionNext]_vars

\* ------------------------------------------------- the gesture's geometry

\* event.x, event.y of <ButtonPress-1>: points of the canvas.
GesturePressPoints == {<<7, 8>>, <<16, 30>>}

\* event.x, event.y of <ButtonRelease-1>: the pointer is grabbed while the
\* button is down, so the release may come from beyond the canvas, left of
\* or above its origin included.
GestureReleasePoints ==
  {<<-3, -3>>, <<7, 8>>, <<16, 30>>, <<30, 41>>, <<905, 603>>}

\* A session with a window whose images all decode.
GestureInit == Init /\ root = "open" /\ undecodable = {}

\* Drawing and deleting boxes on the image the session opened with.
GestureNext ==
  \/ \E p \in GesturePressPoints : on_press(p)
  \/ \E p \in GestureReleasePoints : on_release(p)
  \/ delete_last_bbox
  \/ SaveFinish

GestureSpec == GestureInit /\ [][GestureNext]_vars


\* ------------------------------------------------------- dataset assembly

\* The elements of s at the indices I, in ascending order of index.
RECURSIVE Pick(_, _)
Pick(s, I) ==
  IF I = {} THEN <<>>
  ELSE LET i == CHOOSE x \in I : \A y \in I : x <= y
       IN <<s[i]>> \o Pick(s, I \ {i})

\* The k-element subsets of 1..n.
RECURSIVE KSubsets(_, _)
KSubsets(n, k) ==
  IF k = 0 THEN {{}}
  ELSE IF k > n THEN {}
  ELSE KSubsets(n - 1, k) \cup {T \cup {n} : T \in KSubsets(n - 1, k - 1)}

\* The split index rounded up.
SplitIndexCeil(n) ==
  (n * TRAIN_SPLIT_NUM + TRAIN_SPLIT_DEN - 1) \div TRAIN_SPLIT_DEN

\* int(n * TRAIN_SPLIT)
SplitIndex(n) == (n * TRAIN_SPLIT_NUM) \div TRAIN_SPLIT_DEN

\* random.shuffle(s), as far as the slices at SplitIndex can tell: one
\* permutation for every set of elements that may come before the split
\* index, the elements on either side of it in their listing order.
Shuffles(s) ==
  {Pick(s, T) \o Pick(s, (1..Len(s)) \ T) :
     T \in KSubsets(Len(s), SplitIndex(Len(s)))}

\* list(annotations.keys())
RECURSIVE KeyList(_)
KeyList(keys) ==
  IF keys = {} THEN <<>>
  ELSE LET k == CHOOSE x \in keys : \A y \in keys : x[2] <= y[2]
       IN <<k>> \o KeyList(keys \ {k})

\* The small-sample test with its threshold one too low.
SmallSampleBelowNine(n) == n < SMALL_SAMPLE - 1

\* len(image_paths) < 10
SmallSample(n) == n < SMALL_SAMPLE

\* One line of create_yolo_labels, before formatting: the class and the four
\* quotients as <<numerator, denominator>>.
YoloLabel(bbox, image_width, image_height) ==
  [class |-> bbox.class,
   x_center |-> <<bbox.x1 + bbox.x2, 2 * image_width>>,
   y_center |-> <<bbox.y1 + bbox.y2, 2 * image_height>>,
   width |-> <<bbox.x2 - bbox.x1, image_width>>,
   height |-> <<bbox.y2 - bbox.y1, image_height>>]

\* create_yolo_labels(bboxes, image_width, image_height)
CreateYoloLabels(bboxes, image_width, image_height) ==
  [i \in 1..Len(bboxes) |-> YoloLabel(bboxes[i], image_width, image_height)]

\* train_paths and val_paths of process_annotations.
TrainPaths(paths) ==
  IF SmallSample(Len(paths)) THEN paths
  ELSE SubSeq(paths, 1, SplitIndex(Len(paths)))

ValPaths(paths) ==
  IF SmallSample(Len(paths)) THEN paths
  ELSE SubSeq(paths, SplitIndex(Len(paths)) + 1, Len(paths))

\* train_bg and val_bg of copy_background_images.
TrainBg(bg) == SubSeq(bg, 1, SplitIndex(Len(bg)))
\* The validation slice starting one image late.
ValBgSkipsOne(bg) == SubSeq(bg, SplitIndex(Len(bg)) + 2, Len(bg))
ValBg(bg) == SubSeq(bg, SplitIndex(Len(bg)) + 1, Len(bg))

\* The file name of an image, and its stem: the folders hold "imagen1.jpg",
\* "imagen2.jpg", ... each (src.name, src.stem).
Name(img) == img[2]
Stem(img) == img[2]

\* dst_img and dst_label of process_annotations, and the destination of
\* copy_background_images: <<directory, split, file name>>.
DstImage(split, img) == <<"images", split, Name(img)>>
DstLabel(split, img) == <<"labels", split, Stem(img)>>

\* base_dir / "data.yaml" (file names are numbers here: number 0)
Manifest == <<"data.yaml", "", 0>>

\* How many paths the loop over a split of process_annotations gets
\* through: shutil.copy raises on the first source that is gone.
Copied(paths) ==
  LET gone == {i \in 1..Len(paths) : paths[i] \in missing}
  IN IF gone = {} THEN Len(paths)
     ELSE (CHOOSE i \in gone : \A j \in gone : i <= j) - 1

\* The files that loop writes: for each path it gets through, the image and
\* its labels.
CopyAnnotated(paths, split) ==
  {DstImage(split, paths[i]) : i \in 1..Copied(paths)}
    \cup {DstLabel(split, paths[i]) : i \in 1..Copied(paths)}

\* The files the loop over train_bg or val_bg of copy_background_images
\* writes.
CopyBackground(bg, split) == {DstImage(split, bg[i]) : i \in 1..Len(bg)}

\* Stores whose keys lie in several class folders are taken up to this size.
MaxSpread == 4

\* What main holds when annotator.run() has returned: the keys of the store
\* and those whose image has since been removed.  Stores of one folder, and
\* stores spread over the class folders, with and without a removed image.
AnnotatedInputs ==
  {[keys |-> {<<0, i>> : i \in 1..n}, missing |-> {}] : n \in 0..MaxAnnotated}
    \cup {[keys |-> {<<(i - 1) % Cardinality(CLASSES),
                       (i - 1) \div Cardinality(CLASSES) + 1>> : i \in 1..n},
           missing |-> m] :
             n \in 1..MaxSpread, m \in {{}, {<<0, 1>>}}}

\* main after annotator.run() has returned, with a background folder of b
\* images.
AsmInit ==
  /\ \E in \in AnnotatedInputs :
       /\ all_annotations = [k \in in.keys |-> <<StoredBox(k)>>]
       /\ missing = in.missing
  /\ \E b \in 0..MaxBackground :
       bg_images = [i \in 1..b |-> <<BackgroundFolder, i>>]
  /\ file = FileOf(all_annotations)
  /\ file0 = file
  /\ discovered = [c \in CLASSES |-> <<>>]
  /\ prevStore = all_annotations
  /\ undecodable = {}
  /\ images_by_class = [c \in CLASSES |-> <<>>]
  /\ SetCursorInit(Unloaded(NoClass))
  /\ selected_class_for_bbox = NoClass
  /\ start_x = None
  /\ start_y = None
  /\ root = "destroyed"
  /\ pc = "idle"
  /\ crashed = FALSE
  /\ step = "annotated"
  /\ image_paths = <<>>
  /\ train_paths = <<>>
  /\ val_paths = <<>>
  /\ train_bg = <<>>
  /\ val_bg = <<>>
  /\ train_count = 0
  /\ val_count = 0
  /\ outputs = NoFiles

\* The empty-store test taken to be false always.
NoAnnotationsNever(annotations) == FALSE

\* "not annotations" of main and of process_annotations.
NoAnnotations(annotations) == DOMAIN annotations = {}

\* main: "if not annotations: return".
main_cancel ==
  /\ step = "annotated"
  /\ NoAnnotations(all_annotations)
  /\ step' = "cancelled"
  /\ UNCHANGED <<diskVars, sessionVars, bg_images, image_paths, train_paths,
                 val_paths, train_bg, val_bg, train_count, val_count,
                 outputs>>

\* process_annotations, and main's "train_count, val_count = ...".  An
\* exception leaves main through its except clause: step is "failed".
process_annotations ==
  /\ step = "annotated"
  /\ ~NoAnnotations(all_annotations)
  /\ \E shuffled \in Shuffles(KeyList(DOMAIN all_annotations)) :
       LET train == TrainPaths(shuffled)
           val == ValPaths(shuffled)
           trainDone == Copied(train) = Len(train)
           raised == ~trainDone \/ Copied(val) < Len(val)
       IN /\ image_paths' = shuffled
          /\ train_paths' = train
          /\ val_paths' = val
          /\ outputs' = outputs \cup CopyAnnotated(train, "train")
                           \cup (IF trainDone THEN CopyAnnotated(val, "val")
                                 ELSE {})
          /\ step' = IF raised THEN "failed" ELSE "processed"
          /\ train_count' = IF raised THEN train_count ELSE Len(train)
          /\ val_count' = IF raised THEN val_count ELSE Len(val)
  /\ UNCHANGED <<diskVars, sessionVars, bg_images, train_bg, val_bg>>

\* copy_background_images, and main's "train_count += bg_train;
\* val_count += bg_val".
copy_background_images ==
  /\ step = "processed"
  /\ \E shuffled \in Shuffles(bg_images) :
       /\ bg_images' = shuffled
       /\ train_bg' = TrainBg(shuffled)
       /\ val_bg' = ValBg(shuffled)
  /\ outputs' = outputs \cup CopyBackground(train_bg', "train")
                     \cup CopyBackground(val_bg', "val")
  /\ train_count' = train_count + Len(train_bg')
  /\ val_count' = val_count + Len(val_bg')
  /\ step' = "assembled"
  /\ UNCHANGED <<diskVars, sessionVars, image_paths, train_paths, val_paths>>

\* create_yaml_config writes the manifest and train_model starts training.
train_model ==
  /\ step = "assembled"
  /\ outputs' = outputs \cup {Manifest}
  /\ step' = "training"
  /\ UNCHANGED <<diskVars, sessionVars, bg_images, image_paths, train_paths,
                 val_paths, train_bg, val_bg, train_count, val_count>>

AsmNext ==
  \/ main_cancel
  \/ process_annotations
  \/ copy_background_images
  \/ train_model

\* The assembly: main from the return of annotator.run().
AsmSpec == AsmInit /\ [][AsmNext]_vars


\* ----------------------------------------------------------------- claims

\* The file holds exactly the mapping `store` (no file is the empty mapping).
FileHolds(store) ==
  \/ file = FileOf(store)
  \/ file = FileAbsent /\ DOMAIN store = {}

\* Every image of every working list has an entry in the store.
AllAnnotated ==
  \A c \in CLASSES :
    \A img \in RangeOf(images_by_class[c]) : img \in DOMAIN all_annotations

\* The positions the Navigator can be at, and their order.
Positions ==
  UNION {{<<c, i - 1>> : i \in DOMAIN images_by_class[c]} : c \in CLASSES}
Before(q, r) == q[1] < r[1] \/ (q[1] = r[1] /\ q[2] < r[2])
ImageAt(q) == images_by_class[q[1]][q[2] + 1]
IsLast(q) == \A r \in Positions : ~Before(q, r)

\* C1: the store never holds a key whose box list is empty, after any
\* sequence of commits, deletions, clears and navigation steps.
NoEmptyBoxList ==
  \A k \in DOMAIN all_annotations : all_annotations[k] # <<>>

\* delete_last_bbox has just removed the only box of the current image.
NoEmptyBoxList_Witness ==
  /\ pc = "delete_last_bbox"
  /\ current_bboxes = <<>>
  /\ current_image_path \in DOMAIN prevStore
  /\ current_image_path \notin DOMAIN all_annotations

\* C2: after a crash at any point, the file holds the store as it was before
\* the mutation in flight or the store after it, never less.
CrashLosesAtMostInFlight ==
  crashed => (FileHolds(prevStore) \/ FileHolds(all_annotations))

\* C3: whenever a handler has returned and the next event is awaited, the
\* file's content equals the in-memory store.
MutationsPersisted ==
  (pc = "idle" /\ ~crashed /\ root # "load_error")
    => FileHolds(all_annotations)

\* A commit has returned: the session's own boxes are in the store and the
\* next event is awaited.
MutationsPersisted_Witness ==
  /\ Ready
  /\ current_bboxes # <<>>
  /\ current_image_path \in DOMAIN all_annotations
  /\ all_annotations[current_image_path] = current_bboxes

\* C4: what a reader finds in the file while a save is in progress is the
\* whole previous mapping or the whole new mapping.
ReaderSeesWholeMapping ==
  (pc # "idle" /\ ~crashed) =>
    (FileHolds(prevStore) \/ FileHolds(all_annotations))

\* C5: a release that makes a display rectangle narrower than 10 pixels in
\* x or in y changes neither the store, the current box list, the file nor
\* the session cursor.
SmallGestureChangesNothing ==
  [][\A p \in ReleasePoints :
       (/\ start_x # None
        /\ \/ Abs(p[1] - start_x) < 10
           \/ Abs(p[2] - start_y) < 10
        /\ on_release(p))
       => UNCHANGED <<all_annotations, current_bboxes, file, current_class,
                      current_index, selected_class_for_bbox>>]_vars

\* The "too small" notice is up after a press and a release.
SmallGestureChangesNothing_Witness ==
  /\ Ready
  /\ start_x # None
  /\ messagebox = "Rectangulo muy pequeno"

\* Where next() goes as C9 states it: index + 1 inside the class, else index
\* 0 of the smallest later class with a non-empty working list, else nowhere.
NextAsStated ==
  IF current_index + 1 < Len(images_by_class[current_class])
  THEN current_class' = current_class /\ current_index' = current_index + 1
  ELSE LET later == {k \in CLASSES :
                       k > current_class /\ images_by_class[k] # <<>>}
       IN IF later = {}
          THEN current_class' = current_class
               /\ current_index' = current_index
          ELSE /\ current_class' \in later
               /\ \A k \in later : current_class' <= k
               /\ current_index' = 0

\* C9 as stated: under next() and prev() the class id never decreases, and
\* next() goes exactly where NextAsStated says.
NextPrevAsStated ==
  [][/\ (next_image \/ prev_image) => current_class' >= current_class
     /\ next_image => NextAsStated]_vars

\* Where next() goes: to the first later position whose image decodes, over
\* positions whose images do not; to the last position when none decodes.
NextSkipsUndecodable ==
  LET cur == <<current_class, current_index>>
      new == <<current_class', current_index'>>
  IN IF IsLast(cur) THEN new = cur
     ELSE /\ new \in Positions
          /\ Before(cur, new)
          /\ \A q \in Positions :
               (Before(cur, q) /\ Before(q, new)) => ImageAt(q) \in undecodable
          /\ ImageAt(new) \notin undecodable \/ IsLast(new)

\* C9, amended: under next() and prev() the class id never decreases;
\* next() goes to the following position (index + 1 inside the class, else
\* index 0 of the smallest later class with a non-empty working list) and,
\* while the image there fails to decode and a later position exists, on to
\* the one after it.
NextPrevMonotone ==
  [][/\ (next_image \/ prev_image) => current_class' >= current_class
     /\ next_image => NextSkipsUndecodable]_vars

\* next() has crossed from the end of class 0 to class 2, class 1 having an
\* empty working list.
NextPrevMonotone_Witness ==
  /\ Ready
  /\ messagebox = "Pasando"
  /\ current_class = 2
  /\ current_index = 0
  /\ images_by_class[1] = <<>>
  /\ images_by_class[0] # <<>>

\* C10: once every image of every working list has an entry in the store, a
\* next() at the last position reports Exhausted and the session saves and
\* stops.
ExhaustedStopsSession ==
  [][(/\ AllAnnotated
      /\ IsLast(<<current_class, current_index>>)
      /\ next_image)
     => (messagebox' = "Completado" /\ pc' = "save_and_exit")]_vars

\* The annotated images, as the assembly receives them.
Annotated == DOMAIN all_annotations

\* train_count + val_count = annotated + background, and every annotated
\* image is in exactly one of train_paths and val_paths.
TotalsConserved ==
  /\ train_count + val_count = Cardinality(Annotated) + Len(bg_images)
  /\ \A k \in Annotated :
       (k \in RangeOf(train_paths)) # (k \in RangeOf(val_paths))

\* C6 as stated: for any non-empty set of annotated images and any
\* background pool the assembled split conserves totals.
SplitConservesTotals ==
  (step = "assembled" /\ Annotated # {}) => TotalsConserved

\* C6, amended: for any set of at least 10 annotated images and any
\* background pool, the counts main adds up conserve totals and every
\* annotated image is in exactly one of the two splits.
SplitConservesTotalsFromTen ==
  (step = "assembled" /\ Cardinality(Annotated) >= 10) => TotalsConserved

\* Ten or more annotated images and a background pool split both ways.
SplitConservesTotalsFromTen_Witness ==
  /\ step = "assembled"
  /\ Cardinality(Annotated) >= 10
  /\ train_bg # <<>>
  /\ val_bg # <<>>

\* C7: with N >= 10 annotated images, train holds floor(0.8 * N) of them and
\* validation the other N - floor(0.8 * N); the two are disjoint and together
\* are the store's keys (16 and 4 for N = 20).
SplitAtFloor ==
  LET n == Cardinality(Annotated)
      train == RangeOf(train_paths)
      val == RangeOf(val_paths)
  IN (step = "processed" /\ n >= 10) =>
       /\ Cardinality(train) = (n * 8) \div 10
       /\ Cardinality(val) = n - (n * 8) \div 10
       /\ train_count = Cardinality(train)
       /\ val_count = Cardinality(val)
       /\ train \cap val = {}
       /\ train \cup val = Annotated
       /\ n = 20 => (train_count = 16 /\ val_count = 4)

\* Twenty annotated images have been split.
SplitAtFloor_Witness ==
  /\ step = "processed"
  /\ Cardinality(Annotated) = 20
  /\ Len(train_paths) = 16
  /\ Len(val_paths) = 4

\* C8: with 1 to 9 annotated images, train and validation are both the whole
\* set, and process_annotations returns N for each count.
SmallSampleUsesAll ==
  LET n == Cardinality(Annotated)
  IN (step = "processed" /\ n >= 1 /\ n <= 9) =>
       /\ RangeOf(train_paths) = Annotated
       /\ RangeOf(val_paths) = Annotated
       /\ train_count = n
       /\ val_count = n

\* Seven annotated images have been processed.
SmallSampleUsesAll_Witness ==
  /\ step = "processed"
  /\ Cardinality(Annotated) = 7
  /\ train_count = 7
  /\ val_count = 7

\* The class has an image of its working list with no entry in the store.
HasUnannotated(c) ==
  \E img \in RangeOf(images_by_class[c]) : img \notin DOMAIN all_annotations

\* The cursor is left where it was, with the "class complete" notice.
ReportsClassComplete ==
  /\ messagebox' = "Clase completa"
  /\ UNCHANGED <<current_class, current_index>>

\* C11 as stated: switch_class(target) moves the cursor to index 0 of the
\* target class exactly when that class has an image with no entry in the
\* store; otherwise it reports "class complete" and leaves class and index.
SwitchClassAsStated ==
  [][\A target \in CLASSES :
       switch_class(target) =>
         IF HasUnannotated(target)
         THEN current_class' = target /\ current_index' = 0
         ELSE ReportsClassComplete]_vars

\* The cursor after a load at position `from`: the first position from there
\* on whose image decodes, over positions whose images do not; the last
\* position when none decodes.
LandsFrom(from) ==
  LET new == <<current_class', current_index'>>
  IN /\ new \in Positions
     /\ new = from \/ Before(from, new)
     /\ \A q \in Positions :
          ((q = from \/ Before(from, q)) /\ Before(q, new))
            => ImageAt(q) \in undecodable
     /\ ImageAt(new) \notin undecodable \/ IsLast(new)

\* C11, amended: switch_class(target) moves the cursor to index 0 of the
\* target class exactly when the target's working list (the images of the
\* class that had no store entry when the session was built) is non-empty,
\* and on, as next() does, while the image there fails to decode; otherwise
\* it reports "class complete" and leaves class and index unchanged.
SwitchClassByWorkingList ==
  [][\A target \in CLASSES :
       switch_class(target) =>
         IF images_by_class[target] # <<>>
         THEN /\ LandsFrom(<<target, 0>>)
              /\ ImageAt(<<target, 0>>) \notin undecodable
                   => (current_class' = target /\ current_index' = 0)
         ELSE ReportsClassComplete]_vars

\* switch_class has brought the cursor back to class 0 after the image of
\* class 1 was annotated in this session.
SwitchClassByWorkingList_Witness ==
  /\ Ready
  /\ current_class = 0
  /\ current_index = 0
  /\ <<1, 1>> \in RangeOf(images_by_class[1])
  /\ <<1, 1>> \in DOMAIN all_annotations

\* prev() at index 0 changes nothing of the cursor, the boxes or the store.
PrevAtStartIsNoOp ==
  current_index = 0 =>
    UNCHANGED <<current_class, current_index, current_image_path,
                current_bboxes, all_annotations>>

\* C12 as stated: prev() at index 0 is a no-op on class, index, displayed
\* image, box list and store, it never moves to an earlier class, and at
\* index > 0 it decrements the index by one inside the same class.
PrevAsStated ==
  [][prev_image =>
       /\ PrevAtStartIsNoOp
       /\ current_class' >= current_class
       /\ current_index > 0 =>
            /\ current_class' = current_class
            /\ current_index' = current_index - 1]_vars

\* C12, amended: as stated, except that at index > 0, when the image at
\* index - 1 fails to decode, the cursor goes forward again from there as
\* next() does; it decrements by one whenever that image decodes.
PrevStepsBackOrSkips ==
  [][prev_image =>
       /\ PrevAtStartIsNoOp
       /\ current_class' >= current_class
       /\ current_index > 0 =>
            /\ LandsFrom(<<current_class, current_index - 1>>)
            /\ ImageAt(<<current_class, current_index - 1>>) \notin undecodable
                 => /\ current_class' = current_class
                    /\ current_index' = current_index - 1]_vars

\* prev() has just answered "at start of class" in a class of two images.
PrevStepsBackOrSkips_Witness ==
  /\ Ready
  /\ messagebox = "Inicio"
  /\ current_index = 0
  /\ Len(images_by_class[current_class]) = 2

\* C13: the pending class changes only through set_bbox_class (next, prev,
\* switch_class, commits, delete_last_bbox and clear_all_annotations leave it
\* alone), and a committed box carries the class last selected.
PendingClassOnlyBySelect ==
  [][/\ selected_class_for_bbox' # selected_class_for_bbox
          => \E class_id \in CLASSES : set_bbox_class(class_id)
     /\ \A p \in ReleasePoints :
          (on_release(p) /\ Len(current_bboxes') > Len(current_bboxes))
            => current_bboxes'[Len(current_bboxes')].class
                 = selected_class_for_bbox]_vars

\* After a move to a later class, a box was committed with a pending class
\* that is not the class on show.
PendingClassOnlyBySelect_Witness ==
  /\ pc = "on_release"
  /\ current_class > FirstClass(images_by_class)
  /\ selected_class_for_bbox # current_class
  /\ current_bboxes # <<>>
  /\ current_bboxes[Len(current_bboxes)].class = selected_class_for_bbox

\* The file main found does not parse.
CorruptAtStart == file0.kind \in {"empty", "partial"}

\* C14: if the annotation file exists but cannot be parsed, load fails and
\* the run aborts before the session starts: no session is opened, no
\* assembly step runs, and the file is left exactly as it was.
CorruptFileAborts ==
  CorruptAtStart =>
    /\ root = "load_error"
    /\ pc = "idle"
    /\ step = "session"
    /\ file = file0

\* The run has aborted on a file that holds part of an earlier store.
CorruptFileAborts_Witness ==
  /\ root = "load_error"
  /\ file0.kind = "partial"
  /\ file0.data # {}
  /\ file = file0

SomeImageDecodes ==
  \E c \in CLASSES :
    \E img \in RangeOf(images_by_class[c]) : img \notin undecodable

\* C16 as stated: after a decode failure has been handled the session is on
\* another image (where there is one that decodes), the failed image is not
\* the current image, and no image of the working lists that fails to
\* decode ever has boxes in the store.
DecodeFailureSkipped ==
  /\ (Ready /\ SomeImageDecodes) => current_image_path \notin undecodable
  /\ \A c \in CLASSES :
       \A img \in RangeOf(images_by_class[c]) :
         img \in undecodable => img \notin DOMAIN all_annotations

\* C18: all boxes stored under one image carry the same width and height,
\* so the labels process_annotations makes with the first box's dimensions
\* are the labels made with each box's own.
SameSourceSize ==
  \A k \in DOMAIN all_annotations :
    LET bboxes == all_annotations[k]
    IN /\ \A i, j \in 1..Len(bboxes) :
            /\ bboxes[i].width = bboxes[j].width
            /\ bboxes[i].height = bboxes[j].height
       /\ bboxes # <<>> =>
            CreateYoloLabels(bboxes, bboxes[1].width, bboxes[1].height)
              = [i \in 1..Len(bboxes) |->
                   YoloLabel(bboxes[i], bboxes[i].width, bboxes[i].height)]

\* Two boxes are stored under the image that is larger than the display.
SameSourceSize_Witness ==
  /\ <<0, 1>> \in DOMAIN all_annotations
  /\ Len(all_annotations[<<0, 1>>]) = 2
  /\ display_width # original_width
  /\ current_image_path = <<0, 1>>

\* The annotated images of a split are all materialized.
Materialized(k) ==
  \E split \in {"train", "val"} :
    DstImage(split, k) \in outputs /\ DstLabel(split, k) \in outputs

\* C15 as stated: a store key whose image is gone from disk is skipped:
\* the assembly does not fail, and every other annotated image has its image
\* file and its label file.
MissingImageSkipped ==
  (missing # {} /\ step # "annotated") =>
    /\ step # "failed"
    /\ \A k \in Annotated \ missing : Materialized(k)

\* C17: with an empty store nothing is written under the project directory
\* (no image, no label file, no manifest) and training is not started.
EmptyStoreWritesNothing ==
  Annotated = {} =>
    /\ outputs = {}
    /\ step \in {"annotated", "cancelled"}

\* main has returned on an empty store, with background images waiting.
EmptyStoreWritesNothing_Witness ==
  /\ step = "cancelled"
  /\ Annotated = {}
  /\ bg_images # <<>>
  /\ outputs = {}

\* The images of a split's final set have destinations of their own.
DistinctIn(split, annotated, background) ==
  /\ \A a, b \in annotated \cup background :
       a # b => DstImage(split, a) # DstImage(split, b)
  /\ \A a, b \in annotated : a # b => DstLabel(split, a) # DstLabel(split, b)

\* C20 as stated: any two different images of the final train set, or of
\* the final validation set, annotated or background, have different
\* destination image paths and different label paths.
DistinctOutputPaths ==
  step \in {"assembled", "training"} =>
    /\ DistinctIn("train", RangeOf(train_paths), RangeOf(train_bg))
    /\ DistinctIn("val", RangeOf(val_paths), RangeOf(val_bg))

\* C21 as stated: after assembly no background image of a split has a
\* label file of its base name in the split's label directory, while every
\* annotated image of the split has a label file there that no other
\* annotated image of the split writes.
BackgroundHasNoLabel ==
  step \in {"assembled", "training"} =>
    /\ \A bg \in RangeOf(train_bg) : DstLabel("train", bg) \notin outputs
    /\ \A bg \in RangeOf(val_bg) : DstLabel("val", bg) \notin outputs
    /\ \A a \in RangeOf(train_paths) :
         /\ DstLabel("train", a) \in outputs
         /\ \A b \in RangeOf(train_paths) :
              a # b => DstLabel("train", a) # DstLabel("train", b)
    /\ \A a \in RangeOf(val_paths) :
         /\ DstLabel("val", a) \in outputs
         /\ \A b \in RangeOf(val_paths) :
              a # b => DstLabel("val", a) # DstLabel("val", b)

\* Every discovered image was a key of the file's store when main read it.
AllDoneAtStart ==
  /\ file0.kind = "complete"
  /\ file0.data # {}
  /\ \A c \in CLASSES :
       \A img \in RangeOf(discovered[c]) :
         JsonString(img) \in {m[1] : m \in file0.data}

\* C22 as stated: a session built on a non-empty store that holds every
\* discovered image is built without error and without a window, and run()
\* returns the loaded store.
AllDoneSessionReturns ==
  AllDoneAtStart =>
    /\ root = "none"
    /\ all_annotations = JsonLoad(file0.data)

\* The cursor has landed at `new` after a load at position `from`.
LandedFrom(from, new) ==
  /\ new \in Positions
  /\ new = from \/ Before(from, new)
  /\ \A q \in Positions :
       ((q = from \/ Before(from, q)) /\ Before(q, new))
         => ImageAt(q) \in undecodable
  /\ ImageAt(new) \notin undecodable \/ IsLast(new)

\* The smallest class with a discovered image that is no key of the store
\* main loaded.
SmallestClassWithWork ==
  LET work == {c \in CLASSES :
                 \E img \in RangeOf(discovered[c]) :
                   img \notin DOMAIN all_annotations}
  IN CHOOSE c \in work : \A k \in work : c <= k

\* The working lists are the discovered images less the keys of the store.
WorkingListsFiltered ==
  \A c \in CLASSES :
    images_by_class[c]
      = SelectSeq(discovered[c], LAMBDA img : img \notin DOMAIN all_annotations)

\* C23 as stated: the session starts at index 0 of the smallest class whose
\* working list is non-empty, the working lists being the discovered images
\* less the store's keys; the pending class starts as that class, and the
\* working lists never change during the session.
StartsAtFirstClass ==
  /\ root = "open" =>
       /\ WorkingListsFiltered
       /\ current_class = SmallestClassWithWork
       /\ current_index = 0
       /\ selected_class_for_bbox = SmallestClassWithWork
  /\ [][images_by_class' = images_by_class]_vars

\* C23, amended: as stated, except that when the image at index 0 of the
\* first class fails to decode the session starts further on, where next()
\* would go from there.
StartsAtFirstClassOrSkips ==
  /\ root = "open" =>
       /\ WorkingListsFiltered
       /\ LandedFrom(<<SmallestClassWithWork, 0>>,
                     <<current_class, current_index>>)
       /\ ImageAt(<<SmallestClassWithWork, 0>>) \notin undecodable
            => /\ current_class = SmallestClassWithWork
               /\ current_index = 0
       /\ selected_class_for_bbox = SmallestClassWithWork
  /\ [][images_by_class' = images_by_class]_vars

\* A session that has started on class 1, class 0 being done, and has not
\* yet handled an event.
StartsAtFirstClassOrSkips_Witness ==
  /\ Ready
  /\ discovered[0] # <<>>
  /\ images_by_class[0] = <<>>
  /\ current_class = 1
  /\ current_index = 0
  /\ selected_class_for_bbox = 1
  /\ start_x = None
  /\ file = file0

\* C24 as stated: every release leaves box capture idle, the press point
\* consumed, so that a release with no press since the previous release
\* commits no box and leaves the store alone.
ReleaseConsumesPress ==
  [][\A p \in ReleasePoints :
       on_release(p) =>
         /\ start_x' = None
         /\ start_y' = None
         /\ start_x = None => all_annotations' = all_annotations]_vars

\* The list the store holds for an image, empty when it holds none.
Entry(store, path) == IF path \in DOMAIN store THEN store[path] ELSE <<>>

\* C25 as stated: an accepted gesture appends one box to the end of the
\* list the store holds for the image on show (starting one if there is
\* none) and changes no other entry; delete_last_bbox takes the last box
\* of that list off again, the key going with the last box, so that a commit
\* followed by a delete gives back the store there was before the commit.
CommitAppendsDeleteUndoes ==
  [][/\ \A p \in ReleasePoints :
          (on_release(p) /\ all_annotations' # all_annotations) =>
            \E box \in RangeOf(current_bboxes') :
              all_annotations'
                = Put(all_annotations, current_image_path,
                      Append(Entry(all_annotations, current_image_path), box))
     /\ (delete_last_bbox
           /\ Entry(all_annotations, current_image_path) # <<>>) =>
          LET old == Entry(all_annotations, current_image_path)
              rest == SubSeq(old, 1, Len(old) - 1)
          IN all_annotations'
               = IF rest = <<>> THEN Del(all_annotations, current_image_path)
                 ELSE Put(all_annotations, current_image_path, rest)]_vars

\* C27 as stated: whenever the session waits for an event, the in-memory box
\* list is the list the store holds for the image on show, and is empty when
\* the store holds none.
BoxListMirrorsStore ==
  Ready => current_bboxes = Entry(all_annotations, current_image_path)

\* Every box of the store and of the in-memory list.
AllBoxes ==
  RangeOf(current_bboxes)
    \cup UNION {RangeOf(all_annotations[k]) : k \in DOMAIN all_annotations}

\* C26: every box a gesture has created has x1 < x2 and y1 < y2 in source
\* coordinates, wherever the press and the release fell.
BoxesWellFormed ==
  \A box \in AllBoxes : box.x1 < box.x2 /\ box.y1 < box.y2

\* A box drawn exactly 10 display pixels wide on the image shown at scale
\* 1.5, from x = -3 to x = 7: truncation has made it 14 source pixels wide.
BoxesWellFormed_Witness ==
  /\ Ready
  /\ \E box \in RangeOf(Entry(all_annotations, <<0, 1>>)) :
       /\ box.width = 1350
       /\ box.x1 = -4
       /\ box.x2 = 10
       /\ box.y1 = -4
       /\ box.y2 = 12

\* C28 as stated: every committed box lies inside its source image,
\* 0 <= x1 < x2 <= width and 0 <= y1 < y2 <= height, wherever the press and
\* the release fell.
BoxesInsideImage ==
  \A box \in AllBoxes :
    /\ 0 <= box.x1 /\ box.x1 < box.x2 /\ box.x2 <= box.width
    /\ 0 <= box.y1 /\ box.y1 < box.y2 /\ box.y2 <= box.height

====
